---- MODULE Spec2Model ----
(***************************************************************************)
(* A model of the Durak game engine (DurakEnv) and of the parts of the     *)
(* players (DurakPlayer) and of the deck (Deck) that the engine uses.      *)
(*                                                                         *)
(* Python lists are sequences; a Python index i is the TLA+ index i + 1    *)
(* (operator At).  A hand is a list without repetitions whose order the    *)
(* engine never looks at, so it is kept as a set of cards.  A card is the  *)
(* pair <<value, suit>> (card[0], card[1] in the source).                  *)
(***************************************************************************)
EXTENDS Integers, Sequences, FiniteSets, TLC

\* ------------------------------------------------------------------ bounds
\* Number of card values of the deck (the game's deck has more).
NumValues == 3
\* Largest number of players in the ring at the start of a round.
MaxPlayers == 3
\* DurakEnv.HAND_SIZE, scaled down (the game's hand has six cards).
HAND_SIZE == 3
\* Largest number of cards in the hands at the start of a round of Spec.
MaxInHands == 6
\* Largest number of cards in the deck at the start of a round of SpecRound.
MaxDeck == 3
\* Largest number of deals that a reset() of SpecReset tries.
MaxDeals == 2
\* Largest number of steps after a reset(), and of resets, of SpecReset.
MaxSteps == 2
MaxResets == 2
\* Largest hand size that a player of SpecHand is constructed with (the
\* game's players are constructed with six).
MaxHand == 6
MaxHeld == 3
MaxTurns == 6

\* --------------------------------------------------------------- constants
MIN_PLAYERS == 2
MAX_PLAYERS == 6
attacker == 0
defender == 1

\* ------------------------------------------------------------------- Deck
HEARTS == 0
DIAMONDS == 1
SPADES == 2
CLUBS == 3
SUITS == <<HEARTS, DIAMONDS, SPADES, CLUBS>>
\* The pass action.
NO_CARD == <<-1, -1>>
\* The highest card value.
ACE == NumValues

\* Deck.get_full_list_of_cards: the card universe in its canonical order.
get_full_list_of_cards ==
    [i \in 1..(4 * NumValues) |-> <<((i - 1) \div 4) + 1, SUITS[((i - 1) % 4) + 1]>>]

\* Deck.draw(n): <<the cards drawn, the deck left>>, fewer than n if exhausted.
draw(deck, n) ==
    LET k == IF n < Len(deck) THEN n ELSE Len(deck)
    IN  <<SubSeq(deck, 1, k), SubSeq(deck, k + 1, Len(deck))>>

\* ---------------------------------------------------------- list helpers
Range(seq) == {seq[i] : i \in 1..Len(seq)}

\* seq[i] of Python, negative indices counted from the end.
At(seq, i) == IF i >= 0 THEN seq[i + 1] ELSE seq[Len(seq) + i + 1]

\* seq.index(x) of Python.
index(seq, x) == (CHOOSE i \in 1..Len(seq) : seq[i] = x /\ \A j \in 1..(i - 1) : seq[j] # x) - 1

\* seq[:i] + seq[i + 1:] of Python.
without_index(seq, i) == SubSeq(seq, 1, i) \o SubSeq(seq, i + 2, Len(seq))

\* min and max of Python, for two numbers.
Min(a, b) == IF a < b THEN a ELSE b

Max(a, b) == IF a > b THEN a ELSE b

Players == 1..MaxPlayers
None == 0

\* ----------------------------------------------------------- DurakPlayer
hand_size(s, p) == Cardinality(s.hand[p])

\* take_cards that replaces the hand by the cards taken.
take_cards_replace(s, p, cards) ==
    [s EXCEPT !.hand[p] = IF Len(cards) = 0 THEN @ ELSE Range(cards)]

take_cards(s, p, cards) == [s EXCEPT !.hand[p] = @ \cup Range(cards)]

empty_hand(s, p) == [s EXCEPT !.hand[p] = {}]

\* is_starting_hand_legal without the test for hands of one colour.
is_starting_hand_legal_suits_only(cards, initial_hand_size) ==
    LET num_hearts == Cardinality({c \in cards : c[2] = HEARTS})
        num_diamonds == Cardinality({c \in cards : c[2] = DIAMONDS})
        num_spades == Cardinality({c \in cards : c[2] = SPADES})
        num_clubs == Cardinality({c \in cards : c[2] \notin {HEARTS, DIAMONDS, SPADES}})
    IN  ~ ((initial_hand_size - 1) \in {num_hearts, num_diamonds, num_spades, num_clubs})

\* The hand `cards` of a player constructed with hand_size = initial_hand_size.
is_starting_hand_legal(cards, initial_hand_size) ==
    LET num_hearts == Cardinality({c \in cards : c[2] = HEARTS})
        num_diamonds == Cardinality({c \in cards : c[2] = DIAMONDS})
        num_spades == Cardinality({c \in cards : c[2] = SPADES})
        num_clubs == Cardinality({c \in cards : c[2] \notin {HEARTS, DIAMONDS, SPADES}})
    IN  ~ \/ (initial_hand_size - 1) \in {num_hearts, num_diamonds, num_spades, num_clubs}
          \/ num_hearts + num_diamonds = initial_hand_size
          \/ num_spades + num_clubs = initial_hand_size

\* The lowest trump value of the hand, or the sentinel Deck.NO_CARD, which
\* the engine then compares with card values as the number -1.
get_lowest_trump(s, p) ==
    LET trumps == {c[1] : c \in {c \in s.hand[p] : c[2] = s.trump_suit}}
    IN  IF trumps = {} THEN NO_CARD[1]
        ELSE CHOOSE value \in trumps : \A other \in trumps : value <= other

\* -------------------------------------------------------------- DurakEnv
VARIABLES players, active_players, hand, deck, attacking_cards, defending_cards,
          legal_attacking_cards, legal_defending_cards, turn_player,
          attacking_player, loser, defending, successful, limit, last_action,
          reset_round, attack_phase, reset_attacker, reward, prev

envvars == <<players, active_players, hand, deck, attacking_cards, defending_cards,
             legal_attacking_cards, legal_defending_cards, turn_player,
             attacking_player, loser, defending, successful, limit, last_action,
             reset_round, attack_phase, reset_attacker, reward>>

vars == <<envvars, prev>>

\* The engine and the players' hands as one value.  `notified` is the list
\* of the update_end_round calls made since step() was entered.
Env ==
    [players |-> players, active_players |-> active_players, hand |-> hand,
     deck |-> deck,
     attacking_cards |-> attacking_cards, defending_cards |-> defending_cards,
     legal_attacking_cards |-> legal_attacking_cards,
     legal_defending_cards |-> legal_defending_cards,
     turn_player |-> turn_player, attacking_player |-> attacking_player,
     loser |-> loser, defending |-> defending, successful |-> successful,
     limit |-> limit, last_action |-> last_action, reset_round |-> reset_round,
     attack_phase |-> attack_phase, reset_attacker |-> reset_attacker,
     reward |-> reward, notified |-> <<>>, trump_suit |-> HEARTS]

game_over(s) == Len(s.active_players) < MIN_PLAYERS

get_loser(s) == s.loser

get_turn_player(s) == s.turn_player

to_attack(s) == s.attack_phase

\* do_attack_phase that ends the round whenever the pass reaches the defender.
do_attack_phase_no_skip(s) ==
    IF s.last_action # NO_CARD
    THEN [s EXCEPT !.attacking_cards = Append(@, s.last_action),
                   !.attack_phase = FALSE]
    ELSE IF s.turn_player = At(s.active_players, -1)
    THEN [s EXCEPT !.defending = FALSE, !.successful = TRUE, !.reset_attacker = TRUE]
    ELSE LET t1 == At(s.active_players, index(s.active_players, s.turn_player) + 1)
         IN  IF t1 = At(s.active_players, defender)
             THEN [s EXCEPT !.turn_player = At(s.active_players, index(s.active_players, t1) - 1),
                            !.defending = FALSE, !.successful = TRUE,
                            !.reset_attacker = TRUE]
             ELSE [s EXCEPT !.reset_attacker = FALSE, !.turn_player = t1]

\* do_attack_phase in which the pass of the last attacker hands the turn back
\* to the first one.
do_attack_phase_wrap(s) ==
    IF s.last_action # NO_CARD
    THEN [s EXCEPT !.attacking_cards = Append(@, s.last_action),
                   !.attack_phase = FALSE]
    ELSE IF s.turn_player = At(s.active_players, -1)
    THEN [s EXCEPT !.reset_attacker = FALSE, !.turn_player = At(s.active_players, attacker)]
    ELSE LET t1 == At(s.active_players, index(s.active_players, s.turn_player) + 1)
         IN  IF t1 = At(s.active_players, defender)
             THEN IF t1 # At(s.active_players, -1)
                  THEN [s EXCEPT !.reset_attacker = FALSE,
                                 !.turn_player = At(s.active_players, index(s.active_players, t1) + 1)]
                  ELSE [s EXCEPT !.reset_attacker = FALSE,
                                 !.turn_player = At(s.active_players, index(s.active_players, t1) - 1)]
             ELSE [s EXCEPT !.reset_attacker = FALSE, !.turn_player = t1]

\* do_attack_phase in which a pass hands the turn to the next player of the
\* ring, the defender included.
do_attack_phase_to_next(s) ==
    IF s.last_action # NO_CARD
    THEN [s EXCEPT !.attacking_cards = Append(@, s.last_action),
                   !.attack_phase = FALSE]
    ELSE IF s.turn_player = At(s.active_players, -1)
    THEN [s EXCEPT !.defending = FALSE, !.successful = TRUE, !.reset_attacker = TRUE]
    ELSE [s EXCEPT !.reset_attacker = FALSE,
                   !.turn_player = At(s.active_players,
                                      index(s.active_players, s.turn_player) + 1)]

do_attack_phase(s) ==
    IF s.last_action # NO_CARD
    THEN [s EXCEPT !.attacking_cards = Append(@, s.last_action),
                   !.attack_phase = FALSE]
    ELSE IF s.turn_player = At(s.active_players, -1)
    THEN [s EXCEPT !.defending = FALSE, !.successful = TRUE, !.reset_attacker = TRUE]
    ELSE LET t1 == At(s.active_players, index(s.active_players, s.turn_player) + 1)
         IN  IF t1 = At(s.active_players, defender)
             THEN IF t1 # At(s.active_players, -1)
                  THEN [s EXCEPT !.reset_attacker = FALSE,
                                 !.turn_player = At(s.active_players, index(s.active_players, t1) + 1)]
                  ELSE [s EXCEPT !.turn_player = At(s.active_players, index(s.active_players, t1) - 1),
                                 !.defending = FALSE, !.successful = TRUE,
                                 !.reset_attacker = TRUE]
             ELSE [s EXCEPT !.reset_attacker = FALSE, !.turn_player = t1]

\* do_defence_phase that ends the round one defended pair too late.
do_defence_phase_late(s) ==
    IF s.last_action # NO_CARD
    THEN LET s1 == [s EXCEPT !.defending_cards = Append(@, s.last_action),
                             !.attack_phase = TRUE]
             s2 == IF Len(s1.attacking_cards) = Len(s1.defending_cards)
                      /\ Len(s1.defending_cards) = s1.limit + 1
                   THEN [s1 EXCEPT !.defending = FALSE, !.successful = TRUE]
                   ELSE s1
         IN  [s2 EXCEPT !.reset_attacker = TRUE]
    ELSE LET s1 == [s EXCEPT !.defending = FALSE, !.successful = FALSE]
         IN  take_cards(take_cards(s1, s1.turn_player, s1.attacking_cards),
                        s1.turn_player, s1.defending_cards)

\* do_defence_phase that leaves reset_attacker alone after a defending card.
do_defence_phase_no_reset(s) ==
    IF s.last_action # NO_CARD
    THEN LET s1 == [s EXCEPT !.defending_cards = Append(@, s.last_action),
                             !.attack_phase = TRUE]
         IN  IF Len(s1.attacking_cards) = Len(s1.defending_cards)
                /\ Len(s1.defending_cards) = s1.limit
             THEN [s1 EXCEPT !.defending = FALSE, !.successful = TRUE]
             ELSE s1
    ELSE LET s1 == [s EXCEPT !.defending = FALSE, !.successful = FALSE]
         IN  take_cards(take_cards(s1, s1.turn_player, s1.attacking_cards),
                        s1.turn_player, s1.defending_cards)

\* do_defence_phase that ends the round as soon as every attack is answered.
do_defence_phase_no_limit(s) ==
    IF s.last_action # NO_CARD
    THEN LET s1 == [s EXCEPT !.defending_cards = Append(@, s.last_action),
                             !.attack_phase = TRUE]
             s2 == IF Len(s1.attacking_cards) = Len(s1.defending_cards)
                   THEN [s1 EXCEPT !.defending = FALSE, !.successful = TRUE]
                   ELSE s1
         IN  [s2 EXCEPT !.reset_attacker = TRUE]
    ELSE LET s1 == [s EXCEPT !.defending = FALSE, !.successful = FALSE]
         IN  take_cards(take_cards(s1, s1.turn_player, s1.attacking_cards),
                        s1.turn_player, s1.defending_cards)

\* do_defence_phase in which the failing defender takes the attacking cards only.
do_defence_phase_half(s) ==
    IF s.last_action # NO_CARD
    THEN LET s1 == [s EXCEPT !.defending_cards = Append(@, s.last_action),
                             !.attack_phase = TRUE]
             s2 == IF Len(s1.attacking_cards) = Len(s1.defending_cards)
                      /\ Len(s1.defending_cards) = s1.limit
                   THEN [s1 EXCEPT !.defending = FALSE, !.successful = TRUE]
                   ELSE s1
         IN  [s2 EXCEPT !.reset_attacker = TRUE]
    ELSE LET s1 == [s EXCEPT !.defending = FALSE, !.successful = FALSE]
         IN  take_cards(s1, s1.turn_player, s1.attacking_cards)

do_defence_phase(s) ==
    IF s.last_action # NO_CARD
    THEN LET s1 == [s EXCEPT !.defending_cards = Append(@, s.last_action),
                             !.attack_phase = TRUE]
             s2 == IF Len(s1.attacking_cards) = Len(s1.defending_cards)
                      /\ Len(s1.defending_cards) = s1.limit
                   THEN [s1 EXCEPT !.defending = FALSE, !.successful = TRUE]
                   ELSE s1
         IN  [s2 EXCEPT !.reset_attacker = TRUE]
    ELSE LET s1 == [s EXCEPT !.defending = FALSE, !.successful = FALSE]
         IN  take_cards(take_cards(s1, s1.turn_player, s1.attacking_cards),
                        s1.turn_player, s1.defending_cards)

RECURSIVE refill(_, _)
\* The loop of update_players_hands over the players of `order`.
refill(s, order) ==
    IF order = <<>> THEN s
    ELSE LET p == Head(order)
             d == draw(s.deck, Max(0, HAND_SIZE - hand_size(s, p)))
         IN  refill(take_cards([s EXCEPT !.deck = d[2]], p, d[1]), Tail(order))

\* update_players_hands that fills the hands up in plain ring order.
update_players_hands_ring_order(s) == refill(s, s.active_players)

\* update_players_hands that lets only the attackers draw.
update_players_hands_attackers_only(s) ==
    refill(s, without_index(s.active_players, defender))

update_players_hands(s) ==
    refill(s, without_index(s.active_players, defender) \o <<At(s.active_players, defender)>>)

\* remove_winners that keeps a defender without cards in the ring.
remove_winners_but_defender(s) ==
    LET stays(p) == hand_size(s, p) # 0 \/ p = At(s.active_players, defender)
    IN  [s EXCEPT !.active_players = SelectSeq(@, stays)]

remove_winners(s) ==
    LET stays(p) == hand_size(s, p) # 0
    IN  [s EXCEPT !.active_players = SelectSeq(@, stays)]

\* move_attacker_back that puts the attacker behind the next player only.
move_attacker_back_one_place(s) ==
    [s EXCEPT !.active_players = <<@[2], @[1]>> \o SubSeq(@, 3, Len(@))]

move_attacker_back(s) ==
    [s EXCEPT !.active_players = Tail(@) \o <<Head(@)>>]

\* update_active_players_order without the rotation for a failed defence.
update_active_players_order_once(s) ==
    IF Len(s.active_players) = 1
    THEN [s EXCEPT !.loser = At(s.active_players, 0)]
    ELSE IF Len(s.active_players) >= MIN_PLAYERS
    THEN IF At(s.active_players, attacker) = s.attacking_player
         THEN move_attacker_back(s) ELSE s
    ELSE s

\* update_active_players_order that rotates whoever is at the attacker's place.
update_active_players_order_always(s) ==
    IF Len(s.active_players) = 1
    THEN [s EXCEPT !.loser = At(s.active_players, 0)]
    ELSE IF Len(s.active_players) >= MIN_PLAYERS
    THEN LET s1 == move_attacker_back(s)
         IN  IF ~ s1.successful THEN move_attacker_back(s1) ELSE s1
    ELSE s

\* update_active_players_order that names the round's attacker as the loser.
update_active_players_order_loser(s) ==
    IF Len(s.active_players) = 1
    THEN [s EXCEPT !.loser = s.attacking_player]
    ELSE IF Len(s.active_players) >= MIN_PLAYERS
    THEN LET s1 == IF At(s.active_players, attacker) = s.attacking_player
                   THEN move_attacker_back(s) ELSE s
         IN  IF ~ s1.successful THEN move_attacker_back(s1) ELSE s1
    ELSE s

\* update_active_players_order without the rotation of the round's attacker.
update_active_players_order_keep(s) ==
    IF Len(s.active_players) = 1
    THEN [s EXCEPT !.loser = At(s.active_players, 0)]
    ELSE IF Len(s.active_players) >= MIN_PLAYERS
    THEN IF ~ s.successful THEN move_attacker_back(s) ELSE s
    ELSE s

update_active_players_order(s) ==
    IF Len(s.active_players) = 1
    THEN [s EXCEPT !.loser = At(s.active_players, 0)]
    ELSE IF Len(s.active_players) >= MIN_PLAYERS
    THEN LET s1 == IF At(s.active_players, attacker) = s.attacking_player
                   THEN move_attacker_back(s) ELSE s
         IN  IF ~ s1.successful THEN move_attacker_back(s1) ELSE s1
    ELSE s

\* do_reset_round that leaves the cards on the table.
do_reset_round_keep_table(s) ==
    [s EXCEPT !.legal_attacking_cards = <<>>, !.legal_defending_cards = <<>>,
              !.turn_player = At(s.active_players, attacker),
              !.attacking_player = At(s.active_players, attacker),
              !.defending = TRUE, !.successful = FALSE,
              !.limit = Min(HAND_SIZE, hand_size(s, At(s.active_players, defender))),
              !.attack_phase = TRUE, !.reset_attacker = TRUE, !.reset_round = FALSE]

do_reset_round(s) ==
    [s EXCEPT !.attacking_cards = <<>>, !.defending_cards = <<>>,
              !.legal_attacking_cards = <<>>, !.legal_defending_cards = <<>>,
              !.turn_player = At(s.active_players, attacker),
              !.attacking_player = At(s.active_players, attacker),
              !.defending = TRUE, !.successful = FALSE,
              !.limit = Min(HAND_SIZE, hand_size(s, At(s.active_players, defender))),
              !.attack_phase = TRUE, !.reset_attacker = TRUE, !.reset_round = FALSE]

\* update_legal_cards that matches the values of the attacking side only.
update_legal_cards_attack_side(s) ==
    IF Len(s.attacking_cards) = 0
    THEN [s EXCEPT !.legal_attacking_cards = get_full_list_of_cards,
                   !.legal_defending_cards = <<NO_CARD>>]
    ELSE LET on_attack == Range(s.attacking_cards)
             on_defence == Range(s.defending_cards)
             last == At(s.attacking_cards, -1)
             to_attack_with(card) ==
                 /\ card \notin on_attack /\ card \notin on_defence
                 /\ \E a_card \in on_attack : card[1] = a_card[1] /\ card[2] # a_card[2]
             to_defend_with(card) ==
                 /\ Len(s.attacking_cards) > Len(s.defending_cards)
                 /\ card \notin on_defence
                 /\ \/ card[2] = last[2] /\ card[1] > last[1]
                    \/ card[2] = s.trump_suit /\ last[2] # s.trump_suit
         IN  [s EXCEPT !.legal_attacking_cards =
                           <<NO_CARD>> \o SelectSeq(get_full_list_of_cards, to_attack_with),
                       !.legal_defending_cards =
                           <<NO_CARD>> \o SelectSeq(get_full_list_of_cards, to_defend_with)]

update_legal_cards(s) ==
    IF Len(s.attacking_cards) = 0
    THEN [s EXCEPT !.legal_attacking_cards = get_full_list_of_cards,
                   !.legal_defending_cards = <<NO_CARD>>]
    ELSE LET on_attack == Range(s.attacking_cards)
             on_defence == Range(s.defending_cards)
             last == At(s.attacking_cards, -1)
             to_attack_with(card) ==
                 /\ card \notin on_attack /\ card \notin on_defence
                 /\ \/ \E a_card \in on_attack : card[1] = a_card[1] /\ card[2] # a_card[2]
                    \/ \E d_card \in on_defence : card[1] = d_card[1] /\ card[2] # d_card[2]
             to_defend_with(card) ==
                 /\ Len(s.attacking_cards) > Len(s.defending_cards)
                 /\ card \notin on_defence
                 /\ \/ card[2] = last[2] /\ card[1] > last[1]
                    \/ card[2] = s.trump_suit /\ last[2] # s.trump_suit
         IN  [s EXCEPT !.legal_attacking_cards =
                           <<NO_CARD>> \o SelectSeq(get_full_list_of_cards, to_attack_with),
                       !.legal_defending_cards =
                           <<NO_CARD>> \o SelectSeq(get_full_list_of_cards, to_defend_with)]

\* calculate_reward that looks at the end of the round first.
calculate_reward_round_first(s) ==
    IF ~ s.defending THEN (IF s.successful THEN 1 ELSE -1)
    ELSE IF hand_size(s, s.turn_player) = 0 /\ Len(s.deck) = 0 THEN 30
    ELSE 0

calculate_reward(s) ==
    IF hand_size(s, s.turn_player) = 0 /\ Len(s.deck) = 0 THEN 30
    ELSE IF ~ s.defending THEN (IF s.successful THEN 1 ELSE -1)
    ELSE 0

check_end_round(s) ==
    IF ~ s.defending THEN [s EXCEPT !.reset_round = TRUE]
    ELSE IF s.attack_phase /\ s.reset_attacker
    THEN [s EXCEPT !.turn_player = At(s.active_players, attacker)]
    ELSE IF ~ s.attack_phase
    THEN [s EXCEPT !.turn_player = At(s.active_players, defender)]
    ELSE s

\* DurakPlayer.update_end_round as the engine calls it for player p: what
\* the player is told, and what the player can see of the game at the call.
update_end_round(s, p, defending_player_name, table, successfully_defended) ==
    [s EXCEPT !.notified = Append(@,
        [player |-> p, defending_player_name |-> defending_player_name,
         table |-> table, successfully_defended |-> successfully_defended,
         hand |-> s.hand, deck |-> s.deck, active_players |-> s.active_players])]

RECURSIVE update_end_round_loop(_, _)
update_end_round_loop(s, ring) ==
    IF ring = <<>> THEN s
    ELSE update_end_round_loop(
             update_end_round(s, Head(ring), At(s.active_players, defender),
                              <<s.attacking_cards, s.defending_cards>>, s.successful),
             Tail(ring))

update_end_round_players(s) == update_end_round_loop(s, s.active_players)

\* The resolution of a round that tells the players once the next round
\* has begun.
resolve_round_notify_late(s) ==
    LET s1 == update_players_hands(s)
        s2 == remove_winners(s1)
        s3 == update_active_players_order(s2)
    IN  IF ~ game_over(s3) THEN update_end_round_players(do_reset_round(s3)) ELSE s3

\* The engine after the body of step() up to the end of the round's
\* resolution: the state on which update_legal_cards is then called.
resolve_round(s) ==
    LET s0 == update_end_round_players(s)
        s1 == update_players_hands(s0)
        s2 == remove_winners(s1)
        s3 == update_active_players_order(s2)
    IN  IF ~ game_over(s3) THEN do_reset_round(s3) ELSE s3

\* step() up to and including check_end_round: the phase handler, the
\* reward and the decision whether the round is over.
step_phase(s, action) ==
    LET s1 == [s EXCEPT !.last_action = action, !.reward = 0, !.notified = <<>>]
        s2 == IF s1.attack_phase THEN do_attack_phase(s1) ELSE do_defence_phase(s1)
    IN  check_end_round([s2 EXCEPT !.reward = calculate_reward(s2)])

step(s, action) ==
    LET s4 == step_phase(s, action)
        s5 == IF s4.reset_round THEN resolve_round(s4) ELSE s4
    IN  update_legal_cards(s5)

\* get_available_actions that takes the attacking cards for ring position 0
\* only.
get_available_actions_attacker_only(s) ==
    IF s.turn_player = At(s.active_players, attacker)
    THEN s.hand[s.turn_player] \cap Range(s.legal_attacking_cards)
    ELSE s.hand[s.turn_player] \cap Range(s.legal_defending_cards)

get_available_actions(s) ==
    IF s.turn_player = At(s.active_players, defender)
    THEN s.hand[s.turn_player] \cap Range(s.legal_defending_cards)
    ELSE s.hand[s.turn_player] \cap Range(s.legal_attacking_cards)

\* ------------------------------------------------------------- policies
\* The cards the driving loop offers to the turn player: the player's legal
\* cards, and the pass whenever the pass is legal in the current phase.
legal_cards_to_play(s) ==
    get_available_actions(s) \cup
    (IF s.attack_phase THEN Range(s.legal_attacking_cards) \cap {NO_CARD}
     ELSE Range(s.legal_defending_cards) \cap {NO_CARD})

\* RandomPlayer.attack / defend: the chosen card leaves the hand.
play(s, card) ==
    IF card # NO_CARD THEN [s EXCEPT !.hand[s.turn_player] = @ \ {card}] ELSE s

\* list.sort(key=__sort_legal_cards, reverse=True) of get_strongest_card:
\* by falling value, the pass with the key 0, equal keys in their old order.
RECURSIVE sort_strongest_first(_)
sort_strongest_first(cards) ==
    IF cards = <<>> THEN <<>>
    ELSE LET key(x) == IF x = NO_CARD THEN 0 ELSE x[1]
             last == cards[Len(cards)]
             not_below(x) == key(x) >= key(last)
             below(x) == key(x) < key(last)
             sorted == sort_strongest_first(SubSeq(cards, 1, Len(cards) - 1))
         IN  SelectSeq(sorted, not_below) \o <<last>> \o SelectSeq(sorted, below)

\* get_strongest_card of player p with the list `cards` as
\* legal_cards_to_play: <<the engine, the returned card>>.
get_strongest_card(s, p, cards) ==
    IF Len(cards) = 0 THEN <<s, NO_CARD>>
    ELSE LET sorted == sort_strongest_first(cards)
             other(card) == card # NO_CARD /\ card[2] # s.trump_suit
             others == SelectSeq(sorted, other)
         IN  IF sorted[1] = NO_CARD THEN <<s, NO_CARD>>
             ELSE IF others = <<>>
             THEN <<[s EXCEPT !.hand[p] = @ \ {sorted[1]}], sorted[1]>>
             ELSE <<[s EXCEPT !.hand[p] = @ \ {others[1]}], others[1]>>

\* AggressivePlayer.attack
AggressivePlayer_attack(s, p, cards) == get_strongest_card(s, p, cards)

\* HumanPlayer.__get_card at its start: waiting for a selection.
get_card_start ==
    [waiting |-> TRUE, selected_card |-> NO_CARD, returned |-> FALSE, quit |-> FALSE,
     result |-> NO_CARD]

\* The body of the event loop of HumanPlayer.__get_card for one event: the
\* local variables (waiting, selected_card) and, when the body returns, the
\* returned card, or that None is returned (quit). pressed_card is what __get_clicked_card finds under the
\* mouse; on_pass_button is whether the pass button is.
get_card_event(h, cards, event) ==
    IF event.type = "QUIT"
    THEN [h EXCEPT !.returned = TRUE, !.quit = TRUE]
    ELSE IF event.type = "MOUSEBUTTONDOWN"
    THEN IF event.on_pass_button
         THEN [h EXCEPT !.returned = TRUE, !.result = h.selected_card]
         ELSE h
    ELSE IF event.type = "MOUSEBUTTONUP"
    THEN IF event.button = 1
         THEN IF event.pressed_card # NO_CARD /\ event.pressed_card \in Range(cards)
              THEN [h EXCEPT !.selected_card = event.pressed_card, !.waiting = FALSE]
              ELSE h
         ELSE IF event.button = 3
         THEN IF NO_CARD \in Range(cards) THEN [h EXCEPT !.waiting = FALSE] ELSE h
         ELSE h
    ELSE h

\* The end of HumanPlayer.__get_card, once the events of pygame.event.get()
\* are used up and waiting is False: <<the engine, the local variables>>.
get_card_end(s, p, h) ==
    <<IF h.selected_card # NO_CARD THEN [s EXCEPT !.hand[p] = @ \ {h.selected_card}] ELSE s,
      [h EXCEPT !.returned = TRUE, !.result = h.selected_card]>>

\* PPOPlayer.update_end_round that remembers the attacking cards only.
PPOPlayer_update_end_round_attacks(memory, defending_player_name, table, successfully_defended) ==
    IF successfully_defended THEN memory \o table[1] ELSE memory

\* PPOPlayer.update_end_round: the player's memory after the call.
PPOPlayer_update_end_round(memory, defending_player_name, table, successfully_defended) ==
    IF successfully_defended THEN memory \o table[1] \o table[2] ELSE memory

\* PPOPlayer.initialize_for_game: the player's memory after the call.
PPOPlayer_initialize_for_game(memory) == <<>>

RECURSIVE remember(_, _)
\* The memories of the players, all of them PPOPlayers, after the calls of
\* update_end_round that `notified` lists.
remember(memory, notified) ==
    IF notified = <<>> THEN memory
    ELSE LET call == Head(notified)
         IN  remember([memory EXCEPT ![call.player] =
                          PPOPlayer_update_end_round(@, call.defending_player_name,
                                                     call.table, call.successfully_defended)],
                      Tail(notified))

\* ------------------------------------------------- round starts (inputs)
DeckSize == Len(get_full_list_of_cards)

\* The deck order i -> a * i + b of the canonical list.
shuffle(a, b) ==
    [i \in 1..DeckSize |-> get_full_list_of_cards[((a * (i - 1) + b) % DeckSize) + 1]]

Shuffles ==
    {shuffle(a, b) : a \in {x \in 1..DeckSize : Cardinality(Range(shuffle(x, 0))) = DeckSize},
                     b \in 0..(DeckSize - 1)}

RECURSIVE Sum(_, _)
Sum(f, n) == IF n = 0 THEN 0 ELSE f[n] + Sum(f, n - 1)

\* The sizes a late round can start with: the deck is used up and no
\* active player has an empty hand (remove_winners).
RoundSizes(n) ==
    {z \in [hands : [1..n -> 1..HAND_SIZE], deck : {0}] : Sum(z.hands, n) <= MaxInHands}

\* The sizes of a round that starts with full hands, as the first round
\* of a game does, and with some cards left in the deck.
FullSizes(n) ==
    {z \in [hands : [1..n -> {HAND_SIZE}], deck : 0..MaxDeck] :
        Sum(z.hands, n) + z.deck <= DeckSize}

\* The engine at the start of a round in which the players 1..n, in this
\* ring order, hold the first cards of `shuffled`, the deck holds the next
\* ones, and the other cards have been discarded in earlier rounds.
round_start(n, z, shuffled) ==
    LET first(p) == Sum(z.hands, p - 1)
        s0 == [players |-> [i \in 1..n |-> i],
               active_players |-> [i \in 1..n |-> i],
               hand |-> [p \in Players |->
                           IF p <= n
                           THEN Range(SubSeq(shuffled, first(p) + 1, first(p) + z.hands[p]))
                           ELSE {}],
               deck |-> SubSeq(shuffled, Sum(z.hands, n) + 1, Sum(z.hands, n) + z.deck),
               attacking_cards |-> <<>>, defending_cards |-> <<>>,
               legal_attacking_cards |-> <<>>, legal_defending_cards |-> <<>>,
               turn_player |-> None, attacking_player |-> None, loser |-> None,
               defending |-> TRUE, successful |-> FALSE, limit |-> 0,
               last_action |-> NO_CARD, reset_round |-> FALSE, attack_phase |-> TRUE,
               reset_attacker |-> TRUE, reward |-> 0, notified |-> <<>>,
               trump_suit |-> HEARTS]
    IN  update_legal_cards(do_reset_round(s0))

\* ------------------------------------------------------------------ reset
\* The card list ordered by suits, and with the trumps moved to the end.
by_suit ==
    [i \in 1..DeckSize |-> <<((i - 1) % NumValues) + 1, SUITS[((i - 1) \div NumValues) + 1]>>]

trumps_last ==
    LET trump(card) == card[2] = HEARTS
        other(card) == card[2] # HEARTS
    IN  SelectSeq(get_full_list_of_cards, other) \o SelectSeq(get_full_list_of_cards, trump)

cut(base, b) == [i \in 1..DeckSize |-> base[((i - 1 + b) % DeckSize) + 1]]

\* The generator of the deck orders: Shuffled(k) is the order that the k-th
\* call of Deck.shuffle produces; a seed is the number of the first call.
Seeds == 0..(3 * DeckSize - 1)

Shuffled(k) ==
    cut(<<get_full_list_of_cards, by_suit, trumps_last>>[(k % 3) + 1], (k \div 3) % DeckSize)

\* random.shuffle of the players: the orders of n players.
Orders(n) == {o \in [1..n -> 1..n] : \A i, j \in 1..n : o[i] = o[j] => i = j}

\* The engine after __init__ with the players 1..n.
constructed(n) ==
    [players |-> [i \in 1..n |-> i], active_players |-> [i \in 1..n |-> i],
     hand |-> [p \in 1..Max(n, MaxPlayers) |-> {}], deck |-> get_full_list_of_cards,
     attacking_cards |-> <<>>, defending_cards |-> <<>>,
     legal_attacking_cards |-> <<>>, legal_defending_cards |-> <<>>,
     turn_player |-> None, attacking_player |-> None, loser |-> None,
     defending |-> TRUE, successful |-> FALSE, limit |-> 0,
     last_action |-> NO_CARD, reset_round |-> FALSE, attack_phase |-> TRUE,
     reset_attacker |-> TRUE, reward |-> 0, notified |-> <<>>,
     trump_suit |-> HEARTS]

initialize_deck(s, shuffled) == [s EXCEPT !.deck = shuffled]

RECURSIVE reset_hands_loop(_, _)
reset_hands_loop(s, ring) ==
    IF ring = <<>> THEN s
    ELSE reset_hands_loop([empty_hand(s, Head(ring)) EXCEPT !.trump_suit = s.trump_suit],
                          Tail(ring))

reset_hands(s) == reset_hands_loop(s, s.active_players)

RECURSIVE deal_cards_loop(_, _)
\* <<the engine, whether to deal again>>
deal_cards_loop(s, ring) ==
    IF ring = <<>> THEN <<s, FALSE>>
    ELSE LET d == draw(s.deck, HAND_SIZE)
             s1 == take_cards([s EXCEPT !.deck = d[2]], Head(ring), d[1])
         IN  IF ~ is_starting_hand_legal(s1.hand[Head(ring)], HAND_SIZE)
             THEN <<s1, TRUE>>
             ELSE deal_cards_loop(s1, Tail(ring))

\* deal_cards that accepts every hand.
deal_cards_unchecked(s) == <<refill(s, s.active_players), FALSE>>

deal_cards(s) == deal_cards_loop(s, s.active_players)

RECURSIVE initialize_players_loop(_, _, _)
\* The deals of initialize_players, the first from the deck order number
\* `seed`; <<the engine, whether another deal is still needed>> after at
\* most `deals` deals.
initialize_players_loop(s, seed, deals) ==
    IF deals = 0 THEN <<s, TRUE>>
    ELSE LET r == deal_cards(reset_hands(initialize_deck(s, Shuffled(seed))))
         IN  IF r[2] THEN initialize_players_loop(r[1], seed + 1, deals - 1) ELSE r

initialize_players(s, seed) == initialize_players_loop(s, seed, MaxDeals)

RECURSIVE first_attacker_loop(_, _, _, _)
\* The loop of set_first_attacker: the starting player's name.
first_attacker_loop(s, ring, lowest_trump_value, starting_player_name) ==
    IF ring = <<>> THEN starting_player_name
    ELSE LET value == get_lowest_trump(s, Head(ring))
         IN  IF value < lowest_trump_value
             THEN first_attacker_loop(s, Tail(ring), value, Head(ring))
             ELSE first_attacker_loop(s, Tail(ring), lowest_trump_value, starting_player_name)

RECURSIVE rotate_to(_, _)
rotate_to(s, starting_player_name) ==
    IF At(s.active_players, attacker) # starting_player_name
    THEN rotate_to([s EXCEPT !.active_players = Tail(@) \o <<Head(@)>>], starting_player_name)
    ELSE s

set_first_attacker(s) ==
    LET starting_player_name == first_attacker_loop(s, s.active_players, ACE + 1, None)
    IN  IF starting_player_name # None THEN rotate_to(s, starting_player_name) ELSE s

\* reset() up to initialize_players: the fields are set anew.
reset_fields(s, order) ==
    [s EXCEPT !.active_players = [i \in 1..Len(s.players) |-> s.players[order[i]]],
              !.attacking_player = None, !.turn_player = None, !.loser = None,
              !.attacking_cards = <<>>, !.defending_cards = <<>>,
              !.legal_attacking_cards = <<>>, !.legal_defending_cards = <<>>,
              !.deck = get_full_list_of_cards, !.trump_suit = HEARTS,
              !.defending = TRUE, !.successful = FALSE, !.limit = 0,
              !.last_action = NO_CARD, !.reset_round = FALSE, !.attack_phase = TRUE,
              !.reset_attacker = TRUE, !.reward = 0, !.notified = <<>>]

\* reset() that does not set last_action anew.
reset_keep_last_action(s, order, seed) ==
    LET s1 == [reset_fields(s, order) EXCEPT !.last_action = s.last_action]
    IN  update_legal_cards(do_reset_round(set_first_attacker(initialize_players(s1, seed)[1])))

\* reset() with the players shuffled into `order` and the deck orders drawn
\* from number `seed` on; it returns if a deal is legal within MaxDeals deals.
reset(s, order, seed) ==
    update_legal_cards(do_reset_round(set_first_attacker(
        initialize_players(reset_fields(s, order), seed)[1])))

reset_returns(s, order, seed) == ~ initialize_players(reset_fields(s, order), seed)[2]

\* reset() raises an IndexError: do_reset_round reads active_players[attacker]
\* and active_players[defender], and the ring is too short for one of them.
reset_raises(s) == Len(s.players) <= defender

\* The engine that reset() leaves behind when do_reset_round raises: the
\* cards are dealt and the assignments before the failing line are done.
reset_raised(s, order, seed) ==
    LET s1 == set_first_attacker(initialize_players(reset_fields(s, order), seed)[1])
        s2 == [s1 EXCEPT !.attacking_cards = <<>>, !.defending_cards = <<>>,
                         !.legal_attacking_cards = <<>>, !.legal_defending_cards = <<>>]
    IN  IF Len(s.players) <= attacker THEN s2
        ELSE [s2 EXCEPT !.turn_player = At(s1.active_players, attacker),
                        !.attacking_player = At(s1.active_players, attacker),
                        !.defending = TRUE, !.successful = FALSE]


\* ---------------------------------------------------------------- actions
Set(s) ==
    /\ players = s.players
    /\ active_players = s.active_players /\ hand = s.hand /\ deck = s.deck
    /\ attacking_cards = s.attacking_cards /\ defending_cards = s.defending_cards
    /\ legal_attacking_cards = s.legal_attacking_cards
    /\ legal_defending_cards = s.legal_defending_cards
    /\ turn_player = s.turn_player /\ attacking_player = s.attacking_player
    /\ loser = s.loser /\ defending = s.defending /\ successful = s.successful
    /\ limit = s.limit /\ last_action = s.last_action /\ reset_round = s.reset_round
    /\ attack_phase = s.attack_phase /\ reset_attacker = s.reset_attacker
    /\ reward = s.reward

SetNext(s) ==
    /\ players' = s.players
    /\ active_players' = s.active_players /\ hand' = s.hand /\ deck' = s.deck
    /\ attacking_cards' = s.attacking_cards /\ defending_cards' = s.defending_cards
    /\ legal_attacking_cards' = s.legal_attacking_cards
    /\ legal_defending_cards' = s.legal_defending_cards
    /\ turn_player' = s.turn_player /\ attacking_player' = s.attacking_player
    /\ loser' = s.loser /\ defending' = s.defending /\ successful' = s.successful
    /\ limit' = s.limit /\ last_action' = s.last_action /\ reset_round' = s.reset_round
    /\ attack_phase' = s.attack_phase /\ reset_attacker' = s.reset_attacker
    /\ reward' = s.reward

Init ==
    \E n \in MIN_PLAYERS..MaxPlayers : \E z \in RoundSizes(n) : \E shuffled \in Shuffles :
        /\ Set(round_start(n, z, shuffled))
        /\ prev = [kind |-> "start", passes |-> <<>>, round_steps |-> 0,
                   discard |-> Range(get_full_list_of_cards)
                                 \ (Range(deck) \cup UNION {hand[p] : p \in Players})]

\* The number of step() calls that a round with this limit and this many
\* players in the ring can take: a card and its answer for each of the
\* `limit` attacks, and between two attacks the passes of all attackers but
\* the last.
RoundBound(round_limit, ring_size) ==
    2 * round_limit + (round_limit - 1) * (ring_size - 2)

\* The count of the steps of a round stops here.
StepsCap == RoundBound(HAND_SIZE, MaxPlayers) + 2

\* The cards that leave the game in a step, given the engine before the
\* resolution (mid) and after the step: the table of a successfully defended
\* round, when do_reset_round clears it.
discarded(mid, after) ==
    IF mid.reset_round /\ mid.successful /\ ~ game_over(after)
    THEN Range(mid.attacking_cards) \cup Range(mid.defending_cards)
    ELSE {}

\* One turn of the driving loop: the turn player chooses a card among the
\* cards offered, the card leaves the hand, and step() is called with it.
\* prev records the turn for the properties: the state before it (pre), the
\* state inside step() just before the round is resolved (mid), the calls
\* of update_end_round that step() made (notified), and the
\* players that have passed in a row since the last card was put down, and
\* the number of step() calls of the round so far (round_steps), and the
\* cards that have left the game (discard).
Turn(action) ==
    /\ ~ game_over(Env)
    /\ action \in legal_cards_to_play(Env)
    /\ SetNext(step(play(Env, action), action))
    /\ prev' = [kind |-> "step", pre |-> Env,
                mid |-> step_phase(play(Env, action), action),
                notified |-> step(play(Env, action), action).notified,
                passes |-> IF attack_phase /\ action = NO_CARD
                           THEN Append(prev.passes, turn_player) ELSE <<>>,
                round_steps |-> IF prev.kind = "start" THEN 1
                                ELSE IF prev.mid.reset_round THEN 1
                                ELSE Min(prev.round_steps + 1, StepsCap),
                discard |-> prev.discard \cup
                            discarded(step_phase(play(Env, action), action),
                                      step(play(Env, action), action))]

Attack == attack_phase /\ \E action \in Range(legal_attacking_cards) : Turn(action)

Defend == ~ attack_phase /\ \E action \in Range(legal_defending_cards) : Turn(action)

Next == Attack \/ Defend

\* The late rounds of the games, played to the end of the game.
Spec == Init /\ [][Next]_vars

InitFull ==
    \E n \in MIN_PLAYERS..MaxPlayers : \E z \in FullSizes(n) : \E shuffled \in Shuffles :
        /\ Set(round_start(n, z, shuffled))
        /\ prev = [kind |-> "start", passes |-> <<>>, round_steps |-> 0,
                   discard |-> Range(get_full_list_of_cards)
                                 \ (Range(deck) \cup UNION {hand[p] : p \in Players})]

InRound == IF prev.kind = "start" THEN TRUE ELSE ~ prev.mid.reset_round

AttackInRound == InRound /\ Attack

DefendInRound == InRound /\ Defend

NextInRound == AttackInRound \/ DefendInRound

\* The rounds that start with full hands and a deck, each played up to the
\* start of the round that follows it.
SpecRound == InitFull /\ [][NextInRound]_vars

\* The engine as it is constructed, before the first reset().
InitNew ==
    \E n \in MIN_PLAYERS..MaxPlayers :
        /\ Set(constructed(n))
        /\ prev = [kind |-> "new", steps |-> 0, resets |-> 0, passes |-> <<>>]

\* A call of reset(), on a new engine or on one that has been played with.
\* prev records the inputs and, as twin, the engine of an independent run: a
\* new engine on which reset() is called with the same inputs.
Reset ==
    \E order \in Orders(Len(players)) : \E seed \in Seeds :
        /\ prev.resets < MaxResets
        /\ reset_returns(Env, order, seed)
        /\ SetNext(reset(Env, order, seed))
        /\ prev' = [kind |-> "reset", order |-> order, seed |-> seed, after |-> prev.kind,
                    steps |-> 0, resets |-> prev.resets + 1, passes |-> <<>>,
                    twin |-> reset(constructed(Len(players)), order, seed)]

\* A turn after a reset(); the same action is submitted to the twin.
TurnAfterReset(action) ==
    /\ prev.kind \in {"reset", "step"}
    /\ prev.steps < MaxSteps
    /\ ~ game_over(Env)
    /\ action \in legal_cards_to_play(Env)
    /\ SetNext(step(play(Env, action), action))
    /\ prev' = [kind |-> "step", pre |-> Env,
                mid |-> step_phase(play(Env, action), action),
                notified |-> step(play(Env, action), action).notified,
                passes |-> IF attack_phase /\ action = NO_CARD
                           THEN Append(prev.passes, turn_player) ELSE <<>>,
                steps |-> prev.steps + 1, resets |-> prev.resets, after |-> prev.after,
                twin |-> [step(play(prev.twin, action), action) EXCEPT !.notified = <<>>]]

AttackAfterReset ==
    attack_phase /\ \E action \in Range(legal_attacking_cards) : TurnAfterReset(action)

DefendAfterReset ==
    ~ attack_phase /\ \E action \in Range(legal_defending_cards) : TurnAfterReset(action)

NextReset == Reset \/ AttackAfterReset \/ DefendAfterReset

\* The games from their construction: resets and the first steps after them.
SpecReset == InitNew /\ [][NextReset]_vars

\* The numbers of players an engine can be constructed with: __init__ takes
\* any list of players.
Counts == 0..(MAX_PLAYERS + 1)

\* The orders of random.shuffle that are tried on these engines.
Rotations(n) ==
    IF n = 0 THEN {<<>>}
    ELSE {[i \in 1..n |-> ((i - 1 + r) % n) + 1] : r \in 0..(n - 1)}

InitCount ==
    \E n \in Counts :
        /\ Set(constructed(n))
        /\ prev = [kind |-> "new", passes |-> <<>>]

\* The first reset() of an engine, when it returns a state.
ResetReturns ==
    \E order \in Rotations(Len(players)) : \E seed \in Seeds :
        /\ prev.kind = "new"
        /\ ~ reset_raises(Env)
        /\ reset_returns(Env, order, seed)
        /\ SetNext(reset(Env, order, seed))
        /\ prev' = [kind |-> "returned", order |-> order, seed |-> seed, passes |-> <<>>]

\* The first reset() of an engine, when it raises.
ResetRaises ==
    \E order \in Rotations(Len(players)) : \E seed \in Seeds :
        /\ prev.kind = "new"
        /\ reset_raises(Env)
        /\ reset_returns(Env, order, seed)
        /\ SetNext(reset_raised(Env, order, seed))
        /\ prev' = [kind |-> "raised", order |-> order, seed |-> seed, passes |-> <<>>]

NextCount == ResetReturns \/ ResetRaises

\* The first reset() of the engines of every number of players.
SpecCount == InitCount /\ [][NextCount]_vars

\* A call of step() with an action that is not among the legal cards of the
\* phase: a card that is not in the legal list, or a pass that is not.
IllegalStep ==
    \E action \in Range(get_full_list_of_cards) \cup {NO_CARD} :
        /\ prev.kind # "illegal"
        /\ InRound
        /\ ~ game_over(Env)
        /\ action \notin Range(IF attack_phase THEN legal_attacking_cards
                               ELSE legal_defending_cards)
        /\ SetNext(step(Env, action))
        /\ prev' = [kind |-> "illegal", pre |-> Env, passes |-> <<>>]

AttackBeforeIllegal == prev.kind # "illegal" /\ AttackInRound

DefendBeforeIllegal == prev.kind # "illegal" /\ DefendInRound

NextAny == AttackBeforeIllegal \/ DefendBeforeIllegal \/ IllegalStep

\* The rounds of SpecRound, each with at most one illegal action, its last.
SpecAny == InitFull /\ [][NextAny]_vars

\* A player constructed with some initial hand size who has taken as many
\* cards, before is_starting_hand_legal() is called.
InitHand ==
    \E k \in 2..MaxHand :
        \E cards \in {h \in SUBSET Range(get_full_list_of_cards) : Cardinality(h) = k} :
            /\ Set([constructed(MIN_PLAYERS) EXCEPT !.hand[1] = cards])
            /\ prev = [kind |-> "hand", initial_hand_size |-> k]

\* The call of is_starting_hand_legal() of player 1.
CheckHand ==
    /\ prev.kind = "hand"
    /\ prev' = [kind |-> "checked", initial_hand_size |-> prev.initial_hand_size,
                legal |-> is_starting_hand_legal(hand[1], prev.initial_hand_size)]
    /\ UNCHANGED envvars

NextHand == CheckHand

\* The starting hands and their legality.
SpecHand == InitHand /\ [][NextHand]_vars

\* A game of PPOPlayers begins: reset() on a new engine, with empty memories.
InitMemory ==
    \E n \in MIN_PLAYERS..MaxPlayers : \E order \in Orders(n) : \E seed \in Seeds :
        /\ reset_returns(constructed(n), order, seed)
        /\ Set(reset(constructed(n), order, seed))
        /\ prev = [kind |-> "reset", resets |-> 1, turns |-> 0, passes |-> <<>>,
                   memory |-> [p \in Players |-> <<>>]]

\* A turn of a game of PPOPlayers: step() tells the players of the ring the
\* end of a round, and they remember.
TurnWithMemory(action) ==
    /\ prev.turns < MaxTurns
    /\ ~ game_over(Env)
    /\ action \in legal_cards_to_play(Env)
    /\ SetNext(step(play(Env, action), action))
    /\ prev' = [kind |-> "step", pre |-> Env,
                mid |-> step_phase(play(Env, action), action),
                notified |-> step(play(Env, action), action).notified,
                passes |-> <<>>, resets |-> prev.resets, turns |-> prev.turns + 1,
                before |-> prev.memory,
                memory |-> remember(prev.memory,
                                    step(play(Env, action), action).notified)]

AttackWithMemory ==
    attack_phase /\ \E action \in Range(legal_attacking_cards) : TurnWithMemory(action)

DefendWithMemory ==
    ~ attack_phase /\ \E action \in Range(legal_defending_cards) : TurnWithMemory(action)

\* reset() for the next game, called after a round has ended:
\* initialize_players calls initialize_for_game of every player.
NewGame ==
    \E order \in Rotations(Len(players)) : \E seed \in 0..2 :
        /\ prev.kind = "step"
        /\ prev.resets < MaxResets
        /\ prev.mid.reset_round
        /\ reset_returns(Env, order, seed)
        /\ SetNext(reset(Env, order, seed))
        /\ prev' = [kind |-> "reset", resets |-> prev.resets + 1, turns |-> prev.turns,
                    passes |-> <<>>, before |-> prev.memory,
                    memory |-> [p \in Players |->
                                   IF p \in Range(players)
                                   THEN PPOPlayer_initialize_for_game(prev.memory[p])
                                   ELSE prev.memory[p]]]

NextMemory == AttackWithMemory \/ DefendWithMemory \/ NewGame

\* The games of PPOPlayers from reset() on: their first MaxTurns turns, with
\* a reset() for a next game in between.
SpecMemory == InitMemory /\ [][NextMemory]_vars

\* The lists without repetitions of the members of a set.
Lists(set) ==
    {q \in UNION {[1..k -> set] : k \in 0..Cardinality(set)} :
        \A i, j \in 1..Len(q) : q[i] = q[j] => i = j}

\* Player 1 holds up to MaxHeld cards and is asked for a card, with some of
\* the held cards, and maybe the pass, as legal_cards_to_play.
InitChoice ==
    \E cards \in {h \in SUBSET Range(get_full_list_of_cards) : Cardinality(h) <= MaxHeld} :
        \E legal \in Lists(cards \cup {NO_CARD}) :
            /\ Set([constructed(MIN_PLAYERS) EXCEPT !.hand[1] = cards])
            /\ prev = [kind |-> "asked", legal_cards_to_play |-> legal]

\* The call of attack() of player 1, an AggressivePlayer.
AggressiveAttack ==
    /\ prev.kind = "asked"
    /\ SetNext(AggressivePlayer_attack(Env, 1, prev.legal_cards_to_play)[1])
    /\ prev' = [kind |-> "attacked", legal_cards_to_play |-> prev.legal_cards_to_play,
                hand |-> hand[1],
                card |-> AggressivePlayer_attack(Env, 1, prev.legal_cards_to_play)[2]]

NextAggressive == AggressiveAttack

\* The choices of an AggressivePlayer that attacks.
SpecAggressive == InitChoice /\ [][NextAggressive]_vars

\* The events of pygame that __get_card tells apart, for a player who holds
\* `cards`: a left click finds one of the cards or no card under the mouse.
Events(cards) ==
    {[type |-> "QUIT"]}
    \cup {[type |-> "MOUSEBUTTONDOWN", on_pass_button |-> b] : b \in BOOLEAN}
    \cup {[type |-> "MOUSEBUTTONUP", button |-> 1, pressed_card |-> c] : c \in cards \cup {NO_CARD}}
    \cup {[type |-> "MOUSEBUTTONUP", button |-> b, pressed_card |-> NO_CARD] : b \in {2, 3}}

\* The local variables of __get_card of player 1, a HumanPlayer.
Human == IF prev.kind = "asked" THEN get_card_start ELSE prev.human

\* __get_card handles one event of the list of pygame.event.get().
HumanEvent ==
    \E event \in Events(hand[1]) :
        /\ ~ Human.returned
        /\ prev' = [kind |-> "event", legal_cards_to_play |-> prev.legal_cards_to_play,
                    hand |-> hand[1], event |-> event, before |-> Human,
                    human |-> get_card_event(Human, prev.legal_cards_to_play, event)]
        /\ UNCHANGED envvars

\* The list of pygame.event.get() is used up, and a selection has been made.
HumanEnd ==
    /\ ~ Human.returned
    /\ ~ Human.waiting
    /\ SetNext(get_card_end(Env, 1, Human)[1])
    /\ prev' = [kind |-> "end", legal_cards_to_play |-> prev.legal_cards_to_play,
                hand |-> hand[1], human |-> get_card_end(Env, 1, Human)[2]]

NextHuman == HumanEvent \/ HumanEnd

\* The choices of a HumanPlayer, for the sequences of input events.
SpecHuman == InitChoice /\ [][NextHuman]_vars

\* ----------------------------------------------------------- properties
\* The last turn, if any.
Stepped == prev.kind = "step"
AttackTurn == Stepped /\ prev.pre.attack_phase
DefenceTurn == Stepped /\ ~ prev.pre.attack_phase
\* The last turn ended its round.
RoundEnded == Stepped /\ prev.mid.reset_round
\* A round has just begun.
RoundBegun == prev.kind \in {"start", "reset"} \/ (RoundEnded /\ ~ game_over(Env))

\* C1: within a round the table never holds more defending than attacking
\* cards nor more attacking cards than `limit`, and limit is the smaller of
\* HAND_SIZE and the hand size that the player at ring position 1 had when
\* do_reset_round began the round.
C1_TableWithinLimit ==
    /\ 0 <= Len(defending_cards)
    /\ Len(defending_cards) <= Len(attacking_cards)
    /\ Len(attacking_cards) <= limit
    /\ RoundBegun => limit = Min(HAND_SIZE, Cardinality(hand[At(active_players, defender)]))
    /\ (Stepped /\ ~ RoundEnded) => limit = prev.pre.limit

\* The attackers have filled the table up to a limit of a full hand.
C1_Witness ==
    /\ Stepped /\ ~ attack_phase
    /\ limit = HAND_SIZE
    /\ Len(attacking_cards) = limit
    /\ Len(defending_cards) = limit - 1

\* C2: no card that lies on the table is among the legal attacking cards or
\* among the legal defending cards of a state that reset() or step() returns.
C2_TableCardsNotLegal ==
    \A card \in Range(attacking_cards) \cup Range(defending_cards) :
        /\ card \notin Range(legal_attacking_cards)
        /\ card \notin Range(legal_defending_cards)

\* C3 as stated: whenever the game is over exactly one player is left in the
\* ring and get_loser() returns that player.
C3_OneLoserAlways ==
    (Stepped /\ game_over(Env)) =>
        (Len(active_players) = 1 /\ get_loser(Env) = At(active_players, 0))

\* C3 as amended: whenever step() returns done, at most one player is left
\* in the ring; if one is left get_loser() returns that player, and if none
\* is left (the last players emptied their hands in the same round)
\* get_loser() returns None.
C3_LoserOrDraw ==
    (Stepped /\ game_over(Env)) =>
        \/ Len(active_players) = 1 /\ get_loser(Env) = At(active_players, 0)
        \/ Len(active_players) = 0 /\ get_loser(Env) = None

\* The game ends with one player left after a round in which two players
\* of a ring of three emptied their hands.
C3_Witness ==
    /\ Stepped /\ game_over(Env)
    /\ Len(prev.pre.active_players) >= 3
    /\ Len(active_players) = 1
    /\ get_loser(Env) = At(active_players, 0)

\* C4: a card played in the attacking phase is appended to attacking_cards
\* and the defender (ring position 1) is to defend next; a card played in
\* the defending phase is appended to defending_cards and, unless the round
\* ends, the player at ring position 0 is to attack next.
C4_PhaseAlternation ==
    /\ (AttackTurn /\ last_action # NO_CARD) =>
           /\ attacking_cards = Append(prev.pre.attacking_cards, last_action)
           /\ defending_cards = prev.pre.defending_cards
           /\ ~ attack_phase
           /\ active_players = prev.pre.active_players
           /\ turn_player = At(active_players, defender)
    /\ (DefenceTurn /\ last_action # NO_CARD) =>
           /\ prev.mid.defending_cards = Append(prev.pre.defending_cards, last_action)
           /\ prev.mid.attacking_cards = prev.pre.attacking_cards
           /\ ~ RoundEnded =>
                  /\ defending_cards = prev.mid.defending_cards
                  /\ attacking_cards = prev.mid.attacking_cards
                  /\ attack_phase
                  /\ active_players = prev.pre.active_players
                  /\ turn_player = At(active_players, attacker)
                  /\ turn_player = attacking_player

\* The defender has answered a card that another player than the round's
\* attacker had put down, and the round's attacker is to play again.
C4_Witness ==
    /\ DefenceTurn /\ last_action # NO_CARD /\ ~ RoundEnded
    /\ ~ prev.pre.reset_attacker
    /\ attack_phase
    /\ turn_player = At(active_players, attacker)

\* C5: a pass in the attacking phase ends the round, successfully, exactly
\* when no ring member other than the defender follows the turn player;
\* otherwise nothing changes but the turn, which goes to the next ring member
\* that is not the defender.  So when a round ends by a pass, the ring
\* members other than the defender have passed one after the other, in ring
\* order from position 0, since the last card was put down.
C5_PassProtocol ==
    (AttackTurn /\ last_action = NO_CARD) =>
        LET ring == prev.pre.active_players
            i == index(ring, prev.pre.turn_player)
            after == {j \in (i + 1)..(Len(ring) - 1) : j # defender}
            not_defender(p) == p # At(ring, defender)
        IN  /\ RoundEnded <=> after = {}
            /\ RoundEnded => /\ prev.mid.successful
                             /\ prev.passes = SelectSeq(ring, not_defender)
            /\ ~ RoundEnded =>
                   /\ attacking_cards = prev.pre.attacking_cards
                   /\ defending_cards = prev.pre.defending_cards
                   /\ hand = prev.pre.hand /\ deck = prev.pre.deck
                   /\ active_players = ring
                   /\ attack_phase
                   /\ turn_player = At(ring, CHOOSE j \in after : \A k \in after : j <= k)

\* A round in a ring of three or more has ended by the last attacker's pass.
C5_Witness ==
    /\ AttackTurn /\ last_action = NO_CARD /\ RoundEnded
    /\ Len(prev.pre.active_players) >= 3
    /\ Len(prev.passes) = Len(prev.pre.active_players) - 1

\* C6: the defender's card that completes `limit` defended pairs ends the
\* round successfully in the same step; a defender's card that leaves fewer
\* than `limit` defended pairs does not end the round.
C6_FullDefenceEndsRound ==
    (DefenceTurn /\ last_action # NO_CARD) =>
        LET full == /\ Len(prev.pre.attacking_cards) = prev.pre.limit
                    /\ Len(prev.pre.defending_cards) + 1 = prev.pre.limit
        IN  /\ full => /\ RoundEnded /\ prev.mid.successful
                       /\ reward \in {1, 30}
                       /\ game_over(Env) \/ (attacking_cards = <<>> /\ attack_phase)
            /\ ~ full => /\ ~ RoundEnded
                         /\ defending_cards = Append(prev.pre.defending_cards, last_action)
                         /\ Len(defending_cards) < limit

\* A round with a limit of two or more has been defended completely.
C6_Witness ==
    /\ DefenceTurn /\ last_action # NO_CARD /\ RoundEnded
    /\ prev.pre.limit >= 2
    /\ Len(prev.mid.defending_cards) = prev.pre.limit

\* C7: when the defender passes, the round ends unsuccessfully and the
\* defender's hand after the resolution is its hand before the step plus
\* all the cards of the table; no other player holds a card of the table.
C7_DefenderTakesTable ==
    (DefenceTurn /\ last_action = NO_CARD) =>
        LET d == prev.pre.turn_player
            table == Range(prev.pre.attacking_cards) \cup Range(prev.pre.defending_cards)
        IN  /\ RoundEnded /\ ~ prev.mid.successful
            /\ d = At(prev.pre.active_players, defender)
            /\ table \subseteq hand[d]
            /\ Cardinality(hand[d]) = Cardinality(prev.pre.hand[d])
                   + Len(prev.pre.attacking_cards) + Len(prev.pre.defending_cards)
            /\ \A p \in Players \ {d} : hand[p] \cap table = {}

\* The defender has taken a table with defended pairs while the deck still
\* had cards for the refill.
C7_Witness ==
    /\ DefenceTurn /\ last_action = NO_CARD /\ RoundEnded
    /\ prev.pre.defending_cards # <<>>
    /\ prev.pre.deck # <<>>

\* C8 as stated: in a ring of three or more, after the defender's pass the
\* table is cleared and the next attacker is the ring member two positions
\* after the round's attacker.
C8_NextAttackerTwoAfter ==
    (DefenceTurn /\ last_action = NO_CARD /\ Len(prev.pre.active_players) >= 3) =>
        /\ attacking_cards = <<>> /\ defending_cards = <<>>
        /\ At(active_players, attacker) = At(prev.pre.active_players, 2)

\* C8 as amended: in a ring of three or more, after the defender's pass,
\* if the game is not over, the table is cleared and the next attacker is the
\* first player after the defender in ring order (wrapping around to the
\* round's attacker) that still holds cards; it is the ring member two
\* positions after the round's attacker whenever that player holds cards.
C8_NextAttackerAfterDefender ==
    (DefenceTurn /\ last_action = NO_CARD /\ Len(prev.pre.active_players) >= 3
       /\ ~ game_over(Env)) =>
        LET ring == prev.pre.active_players
            after == SubSeq(ring, 3, Len(ring)) \o <<ring[1]>>
            holds_cards(p) == hand[p] # {}
        IN  /\ attacking_cards = <<>> /\ defending_cards = <<>>
            /\ At(active_players, attacker) = Head(SelectSeq(after, holds_cards))
            /\ holds_cards(At(ring, 2)) => At(active_players, attacker) = At(ring, 2)

\* After the defender's pass in a ring of three, the player two positions
\* after the attacker has left the game and the attacker attacks again.
C8_Witness ==
    /\ DefenceTurn /\ last_action = NO_CARD /\ ~ game_over(Env)
    /\ Len(prev.pre.active_players) = 3
    /\ hand[At(prev.pre.active_players, 2)] = {}
    /\ At(active_players, attacker) = At(prev.pre.active_players, 0)

\* C9: after a failed defence, if the game goes on, the player who took the
\* cards is not the next attacker and is last in the ring; with two players
\* the ring is then the same as before, and after a successful defence the
\* two players have changed places.
C9_TakerGoesLast ==
    /\ (RoundEnded /\ ~ prev.mid.successful /\ ~ game_over(Env)) =>
           /\ At(active_players, attacker) # prev.pre.turn_player
           /\ At(active_players, -1) = prev.pre.turn_player
           /\ prev.pre.turn_player = At(prev.pre.active_players, defender)
    /\ (RoundEnded /\ Len(prev.pre.active_players) = 2 /\ ~ game_over(Env)) =>
           IF prev.mid.successful
           THEN active_players = <<prev.pre.active_players[2], prev.pre.active_players[1]>>
           ELSE active_players = prev.pre.active_players

\* A game of two goes on after the defender took the cards.
C9_Witness ==
    /\ RoundEnded /\ ~ prev.mid.successful /\ ~ game_over(Env)
    /\ Len(prev.pre.active_players) = 2
    /\ At(active_players, attacker) = At(prev.pre.active_players, attacker)

\* C10: at the resolution of a round the hands are filled up from the front
\* of the deck in the order ring position 0, 2, 3, ..., last, 1; each player
\* gets the cards missing to HAND_SIZE, or what is left of the deck.  So the
\* defender gets a card only if every other player holds HAND_SIZE or more.
C10_RefillOrder ==
    RoundEnded =>
        LET ring == prev.mid.active_players
            n == Len(ring)
            order == <<ring[1]>> \o SubSeq(ring, 3, n) \o <<ring[2]>>
            missing == [k \in 1..n |->
                          IF HAND_SIZE > Cardinality(prev.mid.hand[order[k]])
                          THEN HAND_SIZE - Cardinality(prev.mid.hand[order[k]]) ELSE 0]
            before(k) == Min(Len(prev.mid.deck), Sum(missing, k))
        IN  /\ \A k \in 1..n :
                   hand[order[k]] = prev.mid.hand[order[k]] \cup
                       Range(SubSeq(prev.mid.deck, before(k - 1) + 1, before(k)))
            /\ deck = SubSeq(prev.mid.deck, before(n) + 1, Len(prev.mid.deck))
            /\ hand[ring[2]] # prev.mid.hand[ring[2]] =>
                   \A k \in 1..(n - 1) : Cardinality(hand[order[k]]) >= HAND_SIZE

\* In a ring of three the third player and then the defender have drawn,
\* and the deck ran out before the defender's hand was full.
C10_Witness ==
    /\ RoundEnded /\ Len(prev.mid.active_players) >= 3
    /\ hand[At(prev.mid.active_players, 2)] # prev.mid.hand[At(prev.mid.active_players, 2)]
    /\ hand[At(prev.mid.active_players, 1)] # prev.mid.hand[At(prev.mid.active_players, 1)]
    /\ Cardinality(hand[At(prev.mid.active_players, 1)]) < HAND_SIZE

\* C11: in a step that ends a round every member of the ring is told once,
\* in ring order, the round's defender, the final table and the success
\* flag, while the hands, the deck and the ring are still those of the end of
\* the round (nothing drawn, nobody removed, no rotation); the next round is
\* begun after the refill and the rotation, and only if the game is not
\* over.  A step that does not end a round tells nobody anything.
C11_NotifyBeforeResolution ==
    /\ (Stepped /\ ~ RoundEnded) => prev.notified = <<>>
    /\ RoundEnded =>
           LET ring == prev.mid.active_players
               final_table ==
                   <<prev.pre.attacking_cards,
                     IF DefenceTurn /\ last_action # NO_CARD
                     THEN Append(prev.pre.defending_cards, last_action)
                     ELSE prev.pre.defending_cards>>
           IN  /\ ring = prev.pre.active_players
               /\ Len(prev.notified) = Len(ring)
               /\ \A i \in 1..Len(ring) :
                      /\ prev.notified[i].player = ring[i]
                      /\ prev.notified[i].defending_player_name = At(ring, defender)
                      /\ prev.notified[i].table = final_table
                      /\ prev.notified[i].successfully_defended = prev.mid.successful
                      /\ prev.notified[i].hand = prev.mid.hand
                      /\ prev.notified[i].deck = prev.pre.deck
                      /\ prev.notified[i].active_players = ring
               /\ ~ game_over(Env) =>
                      /\ attacking_cards = <<>> /\ defending_cards = <<>>
                      /\ ~ reset_round /\ attack_phase
                      /\ turn_player = At(active_players, attacker)
                      /\ attacking_player = At(active_players, attacker)
                      /\ limit = Min(HAND_SIZE, Cardinality(hand[At(active_players, defender)]))
               /\ game_over(Env) =>
                      /\ <<attacking_cards, defending_cards>> = final_table
                      /\ reset_round
                      /\ turn_player = prev.mid.turn_player

\* A ring of three was told about a round after which one of the three left
\* the game and the other two went on.
C11_Witness ==
    /\ RoundEnded /\ ~ game_over(Env)
    /\ Len(prev.notified) = 3
    /\ Len(active_players) = 2
    /\ \E i \in 1..3 : hand[prev.notified[i].player] = {}

\* Every real card, and the cards that lie on the table.
Universe == (1..NumValues) \X {HEARTS, DIAMONDS, SPADES, CLUBS}
Table == Range(attacking_cards) \cup Range(defending_cards)

\* C12: with no attacking card on the table the legal attacking cards are
\* all the real cards, without the pass, and the only legal defending card is
\* the pass; otherwise the legal attacking cards are the pass and the cards
\* that are not on the table and have the value of a card on the table, on
\* either side.
C12_LegalAttackingSet ==
    IF attacking_cards = <<>>
    THEN /\ Range(legal_attacking_cards) = Universe
         /\ NO_CARD \notin Range(legal_attacking_cards)
         /\ Range(legal_defending_cards) = {NO_CARD}
    ELSE Range(legal_attacking_cards) =
             {NO_CARD} \cup {card \in Universe \ Table : \E t \in Table : t[1] = card[1]}

\* The player to attack holds a legal card whose value is on the defending
\* side of the table only.
C12_Witness ==
    /\ Stepped /\ attack_phase /\ attacking_cards # <<>>
    /\ \E card \in hand[turn_player] \cap Range(legal_attacking_cards) :
           /\ \E d \in Range(defending_cards) : d[1] = card[1]
           /\ \A a \in Range(attacking_cards) : a[1] # card[1]

\* The cards that beat the last attacking card: a greater card of its suit,
\* or any trump if it is not a trump.
Beats(card, last) ==
    \/ card[2] = last[2] /\ card[1] > last[1]
    \/ card[2] = HEARTS /\ last[2] # HEARTS

\* C13: while an attacking card is unanswered the legal defending cards are
\* the pass and the cards that are not on the table and beat the last
\* attacking card; when every attacking card is answered no real card is
\* legal to defend with.
C13_LegalDefendingSet ==
    IF Len(attacking_cards) > Len(defending_cards)
    THEN Range(legal_defending_cards) =
             {NO_CARD} \cup {card \in Universe \ Table :
                                Beats(card, attacking_cards[Len(attacking_cards)])}
    ELSE Range(legal_defending_cards) = {NO_CARD}

\* C14: the reward of a step is 30 if the hand of the engine's turn player
\* and the deck are both empty when the reward is computed (after the phase
\* handler, which hands the turn on at a pass that does not end the round,
\* and before the refill); otherwise it is 1 if the step ended the round
\* successfully, -1 if it ended the round by a failed defence, and 0 if the
\* round goes on.
C14_Reward ==
    Stepped =>
        LET tp == IF AttackTurn /\ last_action = NO_CARD /\ ~ RoundEnded
                  THEN turn_player ELSE prev.pre.turn_player
        IN  /\ reward \in {30, 1, -1, 0}
            /\ reward = IF prev.mid.hand[tp] = {} /\ prev.pre.deck = <<>> THEN 30
                        ELSE IF RoundEnded /\ prev.mid.successful THEN 1
                        ELSE IF RoundEnded THEN -1
                        ELSE 0

\* The defender's last card ended the round successfully with an empty
\* deck: the reward is 30, not 1.
C14_Witness ==
    /\ DefenceTurn /\ RoundEnded /\ prev.mid.successful
    /\ prev.mid.hand[prev.pre.turn_player] = {} /\ prev.pre.deck = <<>>
    /\ reward = 30

\* C18: while the game is not over the turn player is the defender (ring
\* position 1) exactly in the defending phase, so get_available_actions()
\* returns the turn player's cards that are legal to defend with in the
\* defending phase and those that are legal to attack with in the attacking
\* phase.
C18_AvailableActionsByPhase ==
    ~ game_over(Env) =>
        /\ turn_player \in Range(active_players)
        /\ (turn_player = At(active_players, defender)) <=> ~ attack_phase
        /\ get_available_actions(Env) =
               IF attack_phase
               THEN hand[turn_player] \cap Range(legal_attacking_cards)
               ELSE hand[turn_player] \cap Range(legal_defending_cards)

\* An attacker behind the defender in the ring is to play and holds a card
\* that is legal to attack with.
C18_Witness ==
    /\ Stepped /\ ~ game_over(Env) /\ attack_phase
    /\ Len(active_players) >= 3
    /\ turn_player = At(active_players, 2)
    /\ get_available_actions(Env) # {}
    /\ hand[turn_player] \cap Range(legal_defending_cards) # get_available_actions(Env)

\* A legal starting hand: no suit has more than HAND_SIZE - 2 of its cards,
\* and it has a red and a black card.
StartLegal(cards) ==
    /\ \A suit \in {HEARTS, DIAMONDS, SPADES, CLUBS} :
           Cardinality({c \in cards : c[2] = suit}) <= HAND_SIZE - 2
    /\ \E c \in cards : c[2] \in {HEARTS, DIAMONDS}
    /\ \E c \in cards : c[2] \in {SPADES, CLUBS}

\* The hand that the i-th player dealt to gets from the deck order number k.
Dealt(k, i) == Range(SubSeq(Shuffled(k), (i - 1) * HAND_SIZE + 1, i * HAND_SIZE))

\* The number of the first deck order, from the seed on, that deals a legal
\* hand to everyone.
UsedDeal ==
    CHOOSE k \in prev.seed..(prev.seed + MaxDeals - 1) :
        /\ \A i \in 1..Len(players) : StartLegal(Dealt(k, i))
        /\ \A j \in prev.seed..(k - 1) : \E i \in 1..Len(players) : ~ StartLegal(Dealt(j, i))

\* C15: when reset() returns, every player holds the HAND_SIZE cards that
\* the first deck order with legal hands for everyone deals to it, the hands
\* of the deals before it being discarded; the hands are legal starting hands
\* and disjoint, the deck holds the rest of that deck order, the table is
\* empty, the phase is the attacking phase and ring position 0 is to play.
C15_ResetDeals ==
    prev.kind = "reset" =>
        LET n == Len(players)
        IN  /\ \E k \in prev.seed..(prev.seed + MaxDeals - 1) :
                   \A i \in 1..n : StartLegal(Dealt(k, i))
            /\ \A i \in 1..n :
                   /\ hand[players[prev.order[i]]] = Dealt(UsedDeal, i)
                   /\ Cardinality(hand[players[prev.order[i]]]) = HAND_SIZE
                   /\ StartLegal(hand[players[prev.order[i]]])
            /\ \A p, q \in Players : p # q => hand[p] \cap hand[q] = {}
            /\ \A p \in Players \ Range(players) : hand[p] = {}
            /\ deck = SubSeq(Shuffled(UsedDeal), n * HAND_SIZE + 1, DeckSize)
            /\ Range(active_players) = Range(players) /\ Len(active_players) = n
            /\ attacking_cards = <<>> /\ defending_cards = <<>>
            /\ attack_phase
            /\ turn_player = At(active_players, attacker)

\* reset() has been called on an engine of three that had been played with,
\* and its first deal was illegal.
C15_Witness ==
    /\ prev.kind = "reset" /\ prev.after = "step"
    /\ Len(players) = 3
    /\ UsedDeal # prev.seed
    /\ \A p \in Range(players) : Cardinality(hand[p]) = HAND_SIZE

\* The trump values in the hand of p.
Trumps(p) == {c[1] : c \in {c \in hand[p] : c[2] = HEARTS}}

\* The ring as the players were shuffled into it at the last reset().
ShuffledRing == [i \in 1..Len(players) |-> players[prev.order[i]]]

\* C17: after reset(), if some player holds a trump, the player at ring
\* position 0 holds the lowest trump of all the hands and the ring is a
\* rotation of the shuffled ring; if nobody holds a trump the ring is the
\* shuffled ring.
C17_LowestTrumpStarts ==
    prev.kind = "reset" =>
        LET n == Len(players)
            holders == {p \in Range(players) : Trumps(p) # {}}
            first == At(active_players, attacker)
        IN  IF holders = {} THEN active_players = ShuffledRing
            ELSE /\ first \in holders
                 /\ \A p \in holders : \A v \in Trumps(p) : \E w \in Trumps(first) : w <= v
                 /\ \E r \in 0..(n - 1) :
                        active_players = [i \in 1..n |-> ShuffledRing[((i - 1 + r) % n) + 1]]

C16_StartingHandLegal ==
    prev.kind = "checked" =>
        LET size == prev.initial_hand_size
            count(suit) == Cardinality({c \in hand[1] : c[2] = suit})
            all_red == \A c \in hand[1] : c[2] \in {HEARTS, DIAMONDS}
            all_black == \A c \in hand[1] : c[2] \in {SPADES, CLUBS}
        IN  /\ Cardinality(hand[1]) = size
            /\ prev.legal = FALSE <=>
                   \/ \E suit \in {HEARTS, DIAMONDS, SPADES, CLUBS} : count(suit) >= size - 1
                   \/ all_red
                   \/ all_black
            /\ prev.legal = TRUE <=>
                   /\ \A suit \in {HEARTS, DIAMONDS, SPADES, CLUBS} : count(suit) <= size - 2
                   /\ ~ all_red
                   /\ ~ all_black

\* A hand of six with three hearts and three diamonds has been rejected.
C16_Witness ==
    /\ prev.kind = "checked" /\ prev.initial_hand_size = 6
    /\ Cardinality({c \in hand[1] : c[2] = HEARTS}) = 3
    /\ Cardinality({c \in hand[1] : c[2] = DIAMONDS}) = 3
    /\ prev.legal = FALSE

\* C20: a step() with an action that is not among the legal cards of the
\* phase leaves the table, the hands, the turn player, the phase and the ring
\* as they were.
C20_IllegalActionRejected ==
    prev.kind = "illegal" =>
        /\ attacking_cards = prev.pre.attacking_cards
        /\ defending_cards = prev.pre.defending_cards
        /\ hand = prev.pre.hand
        /\ turn_player = prev.pre.turn_player
        /\ attack_phase = prev.pre.attack_phase
        /\ active_players = prev.pre.active_players

\* C21: reset() of an engine constructed with fewer than MIN_PLAYERS or more
\* than MAX_PLAYERS players does not return an initial state.
C21_PlayerCountChecked ==
    prev.kind = "returned" => Len(players) \in MIN_PLAYERS..MAX_PLAYERS

\* C22: a round takes a bounded number of step() calls: the steps of a round
\* never exceed RoundBound of the round's limit and ring size, and the step
\* that ends the round is the one in which `defending` becomes false, by a
\* successful defence (the table is full or all attackers have passed) or by
\* the defender taking the cards.
C22_RoundBounded ==
    Stepped =>
        /\ prev.round_steps <= RoundBound(prev.pre.limit, Len(prev.pre.active_players))
        /\ prev.pre.defending
        /\ RoundEnded <=> ~ prev.mid.defending
        /\ RoundEnded =>
              \/ /\ prev.mid.successful /\ DefenceTurn
                  /\ Len(prev.mid.defending_cards) = prev.pre.limit
              \/ /\ prev.mid.successful /\ AttackTurn /\ prev.mid.last_action = NO_CARD
              \/ /\ ~ prev.mid.successful /\ DefenceTurn /\ prev.mid.last_action = NO_CARD

\* A round that took as many steps as the bound allows, with passes between
\* the attacks, before its last step ended it.
C22_Witness ==
    /\ RoundEnded
    /\ Len(prev.pre.active_players) > MIN_PLAYERS
    /\ prev.pre.limit > 1
    /\ prev.round_steps = RoundBound(prev.pre.limit, Len(prev.pre.active_players))

\* C23: AggressivePlayer.attack returns a highest-valued card among the legal
\* cards that are not trumps when there is one, otherwise the lowest-valued
\* legal trump card, and the pass only when no real card is legal; the hand
\* loses the returned card and nothing else.
C23_AggressiveAttack ==
    prev.kind = "attacked" =>
        LET real == Range(prev.legal_cards_to_play) \ {NO_CARD}
            others == {c \in real : c[2] # HEARTS}
        IN  /\ hand[1] = prev.hand \ {prev.card}
            /\ IF others # {}
               THEN prev.card \in others /\ \A c \in others : c[1] <= prev.card[1]
               ELSE IF real # {}
               THEN prev.card \in real /\ \A c \in real : prev.card[1] <= c[1]
               ELSE prev.card = NO_CARD

\* C24: __get_card of a HumanPlayer returns a card of legal_cards_to_play (the
\* pass only if the pass is in the list) or None, on a quit; an event that
\* selects a card or a pass that is not in the list leaves the player waiting
\* and the hand as it is; and a real card that is returned has left the hand,
\* while nothing else has.
C24_HumanSelection ==
    prev.kind \in {"event", "end"} =>
        LET legal == Range(prev.legal_cards_to_play)
            h == prev.human
        IN  /\ h.returned =>
                  \/ h.quit /\ prev.kind = "event" /\ hand[1] = prev.hand
                  \/ /\ ~ h.quit
                     /\ h.result \in legal
                     /\ hand[1] = prev.hand \ {h.result}
                     /\ h.result # NO_CARD => h.result \in prev.hand
            /\ ~ h.returned => hand[1] = prev.hand
            /\ ( /\ prev.kind = "event"
                 /\ prev.before.waiting
                 /\ \/ /\ prev.event.type = "MOUSEBUTTONUP"
                       /\ prev.event.button = 1
                       /\ prev.event.pressed_card \notin legal
                    \/ /\ prev.event.type = "MOUSEBUTTONUP"
                       /\ prev.event.button = 3
                       /\ NO_CARD \notin legal
                    \/ /\ prev.event.type = "MOUSEBUTTONDOWN"
                       /\ prev.event.on_pass_button
                       /\ NO_CARD \notin legal )
                => h = prev.before /\ hand[1] = prev.hand

\* C25: after a round that ends successfully and after which the game goes
\* on, the next attacker is the round's defender if the defender holds cards
\* after the refill, and otherwise the first player after the defender in
\* ring order that does; the ring is the ring of the players that hold cards,
\* in their old order, moved on by one place if the round's attacker is
\* among them and not moved at all if not.
C25_NextAttackerAfterSuccess ==
    (RoundEnded /\ prev.mid.successful /\ ~ game_over(Env)) =>
        LET ring == prev.pre.active_players
            holds_cards(p) == hand[p] # {}
            after == Tail(ring) \o <<Head(ring)>>
            survivors == SelectSeq(ring, holds_cards)
        IN  /\ At(active_players, attacker) = Head(SelectSeq(after, holds_cards))
            /\ holds_cards(At(ring, defender)) =>
                   At(active_players, attacker) = At(ring, defender)
            /\ active_players = IF holds_cards(At(ring, attacker))
                                THEN Tail(survivors) \o <<Head(survivors)>>
                                ELSE survivors
            /\ turn_player = At(active_players, attacker)
            /\ attacking_player = At(active_players, attacker)

\* After a successful defence with his last card the defender has left a
\* ring of three, and the third player attacks the round's attacker.
C25_Witness ==
    /\ RoundEnded /\ prev.mid.successful /\ ~ game_over(Env)
    /\ DefenceTurn
    /\ Len(prev.pre.active_players) = 3
    /\ hand[At(prev.pre.active_players, defender)] = {}
    /\ active_players = <<At(prev.pre.active_players, 2), At(prev.pre.active_players, attacker)>>

\* The ring `ring` after k moves of its first player to the back.
MovedBack(ring, k) ==
    IF ring = <<>> THEN <<>>
    ELSE [i \in 1..Len(ring) |-> ring[((i - 1 + k) % Len(ring)) + 1]]

\* C26: the cyclic order of the active players never changes. A step that
\* does not end the round leaves the ring as it is, and so does the phase
\* handler of every step; a step that ends the round removes the players
\* without cards, keeps the order of the others, and moves the first of them
\* to the back at most twice.
C26_RingOrderKept ==
    Stepped =>
        /\ prev.mid.active_players = prev.pre.active_players
        /\ ~ RoundEnded => active_players = prev.pre.active_players
        /\ RoundEnded =>
               LET ring == prev.pre.active_players
                   holds_cards(p) == hand[p] # {}
                   survivors == SelectSeq(ring, holds_cards)
               IN  \E k \in 0..2 : active_players = MovedBack(survivors, k)

\* A round of three players ends with a player leaving and the two others
\* changing places.
C26_Witness ==
    /\ RoundEnded
    /\ Len(prev.pre.active_players) = 3
    /\ Len(active_players) = 2
    /\ \E i, j \in 1..3 : i < j /\ active_players = <<prev.pre.active_players[j],
                                                        prev.pre.active_players[i]>>

\* The engine as step() finds it in the last turn: the chosen card has left
\* the hand of the turn player.
Entered == play(prev.pre, prev.mid.last_action)

\* C27: step() takes no card out of a hand. A step that does not end the
\* round leaves the hands, the deck, the ring and limit as they are (it
\* writes the table, the phase, the turn and, with them, last_action, reward,
\* reset_attacker and the legal cards); a step that ends the round only adds
\* cards to hands: the cards of the table to the defender who passed, and
\* cards from the front of the deck.
C27_StepKeepsHands ==
    Stepped =>
        LET d == At(prev.pre.active_players, defender)
            table == Range(prev.pre.attacking_cards) \cup Range(prev.pre.defending_cards)
            drawn == Len(prev.pre.deck) - Len(deck)
            taken(p) == IF DefenceTurn /\ prev.mid.last_action = NO_CARD /\ p = d
                        THEN table ELSE {}
        IN  /\ \A p \in Players : Entered.hand[p] \subseteq hand[p]
            /\ ~ RoundEnded =>
                   /\ hand = Entered.hand /\ deck = prev.pre.deck
                   /\ active_players = prev.pre.active_players
                   /\ limit = prev.pre.limit
                   /\ players = prev.pre.players /\ loser = prev.pre.loser
                   /\ attacking_player = prev.pre.attacking_player
                   /\ defending /\ ~ successful /\ ~ reset_round
            /\ RoundEnded =>
                   /\ drawn >= 0
                   /\ deck = SubSeq(prev.pre.deck, drawn + 1, Len(prev.pre.deck))
                   /\ \A p \in Players :
                          /\ taken(p) \subseteq hand[p]
                          /\ hand[p] \ (Entered.hand[p] \cup taken(p))
                                 \subseteq Range(SubSeq(prev.pre.deck, 1, drawn))

\* The defender has passed and holds the old hand and the table, and the
\* attacker has drawn a card from the deck.
C27_Witness ==
    /\ RoundEnded /\ DefenceTurn /\ prev.mid.last_action = NO_CARD
    /\ Entered.hand[At(prev.pre.active_players, defender)] # {}
    /\ hand[At(prev.pre.active_players, attacker)]
           # Entered.hand[At(prev.pre.active_players, attacker)]
    /\ deck # prev.pre.deck

\* C28: the reward of a step is 30 only if the player whose action the step
\* was called with holds no card, with the deck empty; the pass of a player
\* who holds cards is never rewarded with 30.
C28_RewardToActingPlayer ==
    (Stepped /\ reward = 30) =>
        /\ Entered.hand[prev.pre.turn_player] = {}
        /\ prev.pre.deck = <<>>

\* The cards in the hands.
Held == UNION {hand[p] : p \in Players}

\* The deck, the hands and the discard hold every card of the universe that
\* is not on the table, each of them once.
OffTableOnce ==
    /\ \A p, q \in Players : p # q => hand[p] \cap hand[q] = {}
    /\ Cardinality(Range(deck)) = Len(deck)
    /\ Cardinality(Table) = Len(attacking_cards) + Len(defending_cards)
    /\ Range(deck) \cap Held = {}
    /\ prev.discard \cap (Range(deck) \cup Held \cup Table) = {}
    /\ Range(deck) \cap Table = {}
    /\ Universe = Range(deck) \cup Held \cup Table \cup prev.discard

\* C29 as stated: in every state each card of the universe is in exactly one
\* place among the deck, a hand, the table and the discard.
C29_CardsInOnePlace ==
    prev.kind \in {"start", "step"} => OffTableOnce /\ Table \cap Held = {}

\* C29 as amended: in every state each card is in exactly one place among the
\* deck, a hand, the table and the discard, except when the game has ended
\* with a failed defence: then the cards of the last table are still listed
\* on the table and are in the hand of the loser who took them as well.
C29_CardsConserved ==
    prev.kind \in {"start", "step"} =>
        /\ OffTableOnce
        /\ IF game_over(Env) /\ RoundEnded /\ ~ prev.mid.successful
           THEN Table \subseteq hand[prev.pre.turn_player]
           ELSE Table \cap Held = {}

\* The game has ended with the defender taking the table: the loser holds
\* the cards that the table still lists.
C29_Witness ==
    /\ game_over(Env) /\ RoundEnded /\ ~ prev.mid.successful
    /\ Table # {}
    /\ Table \subseteq hand[loser]
    /\ prev.discard # {}

\* C30: when a round begins every player of the ring holds a card, limit is
\* at least 1 and the turn is the attacker's, who holds a card; and whenever
\* it is the defender's turn to answer an attack the defender holds a card.
C30_NobodyPlaysEmptyHanded ==
    /\ RoundBegun =>
           /\ \A p \in Range(active_players) : hand[p] # {}
           /\ limit >= 1
           /\ attack_phase
           /\ turn_player = At(active_players, attacker)
           /\ get_available_actions(Env) # {}
    /\ (prev.kind \in {"start", "step", "reset"} /\ ~ attack_phase /\ ~ game_over(Env)) =>
           /\ turn_player = At(active_players, defender)
           /\ hand[turn_player] # {}

\* The defender is attacked with the last card that limit allows and holds
\* one card to answer it.
C30_Witness ==
    /\ Stepped /\ ~ attack_phase /\ ~ game_over(Env)
    /\ limit >= 2
    /\ Len(attacking_cards) = limit
    /\ Cardinality(hand[At(active_players, defender)]) = 1

\* C31: the set of the active players only shrinks. A step that does not
\* end a round removes nobody; a step that ends a round removes exactly the
\* players whose hands are empty after the refill, and then the deck is
\* empty. So when a round begins with cards in the deck, every active player
\* holds HAND_SIZE cards or more.
C31_RingOnlyShrinks ==
    /\ Stepped =>
           LET removed == Range(prev.pre.active_players) \ Range(active_players)
           IN  /\ Range(active_players) \subseteq Range(prev.pre.active_players)
               /\ Range(prev.mid.active_players) = Range(prev.pre.active_players)
               /\ ~ RoundEnded => removed = {}
               /\ RoundEnded =>
                      removed = {p \in Range(prev.pre.active_players) : hand[p] = {}}
               /\ removed # {} => deck = <<>>
    /\ (RoundBegun /\ deck # <<>>) =>
           \A p \in Range(active_players) : Cardinality(hand[p]) >= HAND_SIZE

\* A round that began with full hands ends with an empty deck: a player who
\* has played all his cards leaves a ring of three, and the game goes on.
C31_Witness ==
    /\ RoundEnded /\ ~ game_over(Env)
    /\ Len(prev.pre.active_players) = 3
    /\ Len(active_players) = 2
    /\ \E p \in Range(prev.pre.active_players) : p \notin Range(active_players) /\ hand[p] = {}

\* C32: while the game is not over, to_attack() is false if and only if the
\* turn player is the player at ring position 1, so the defender never has
\* the turn in the attack phase, and the turn player is in the ring.
C32_Roles ==
    (prev.kind \in {"start", "step", "reset"} /\ ~ game_over(Env)) =>
        /\ ~ to_attack(Env) <=> get_turn_player(Env) = At(active_players, defender)
        /\ to_attack(Env) => get_turn_player(Env) # At(active_players, defender)
        /\ get_turn_player(Env) \in Range(active_players)

\* The first attacker of a ring of three has passed, and the turn has gone
\* past the defender to the third player.
C32_Witness ==
    /\ AttackTurn /\ last_action = NO_CARD /\ ~ RoundEnded
    /\ prev.pre.turn_player = At(active_players, attacker)
    /\ to_attack(Env)
    /\ get_turn_player(Env) = At(active_players, 2)

\* The cards that have left the game: neither in the deck nor in a hand nor
\* on the table of a round that is being played.
Gone ==
    Universe \ (Range(deck) \cup Held \cup (IF game_over(Env) THEN {} ELSE Table))

\* C33: the memory of a PPOPlayer in the ring holds the cards of the tables
\* of the rounds that ended successfully since initialize_for_game, the cards
\* that have left the game, each of them once; a step that does not end a
\* round successfully leaves the memories as they are, and after reset() the
\* memory of every player is empty.
C33_MemoryOfDiscards ==
    /\ \A p \in Range(active_players) :
           /\ Range(prev.memory[p]) = Gone
           /\ Len(prev.memory[p]) = Cardinality(Gone)
    /\ (Stepped /\ ~ (RoundEnded /\ prev.mid.successful)) => prev.memory = prev.before
    /\ prev.kind = "reset" => \A p \in Range(players) : prev.memory[p] = <<>>

\* A second round has ended successfully, and a player of the ring remembers
\* the tables of both rounds.
C33_Witness ==
    /\ RoundEnded /\ prev.mid.successful
    /\ \E p \in Range(active_players) :
           /\ prev.before[p] # <<>>
           /\ Len(prev.memory[p]) > Len(prev.before[p])

====
